---- MODULE Spec2Model ----
(***************************************************************************)
(* obsidianki-mcp: a supervisor that exposes the obsidianki command-line   *)
(* tool through request/response operations.                               *)
(*   src/main.py   : interactive mode (run / respond / get_output / stop)  *)
(*   src/direct.py : one-shot mode (generate_flashcards)                   *)
(* Python text is a sequence of code points, bytes a sequence of 0..255.   *)
(* Every asyncio task runs atomically between two awaits, so each action   *)
(* below is the code between two consecutive awaits of one task.           *)
(***************************************************************************)
EXTENDS Integers, Sequences, FiniteSets, TLC

\* ------------------------------------------------------------ bounds
\* requests the control plane receives in one run
MaxRequests == 2
\* lines all children together write in one run of the interactive server
MaxLines == 1
\* requests the one-shot server receives in one run
MaxRuns == 1
\* lines the children of the one-shot server write in one run
MaxOutput == 2
\* longest note-pattern list given to the argument builder
MaxNotes == 2
MaxConcurrent == 2
\* requests in a run of several sessions
MaxSessionRequests == 3
\* children that start a background process, children that close their input
MaxForks == 1
MaxShuts == 1

\* ------------------------------------------------------------ values
None == <<>>
Some(x) == <<x>>

NL == 10
SIGTERM == 15
SIGKILL == 9
\* the return code the event loop records for a child whose exit status was
\* collected elsewhere
LostStatus == 255

Streams == {"stdout", "stderr"}

\* str.strip() with no argument removes the Unicode whitespace characters.
Whitespace == {9, 10, 11, 12, 13, 28, 29, 30, 31, 32, 133, 160}

RECURSIVE LStrip(_)
LStrip(t) == IF t # <<>> /\ Head(t) \in Whitespace THEN LStrip(Tail(t)) ELSE t

RECURSIVE RStrip(_)
RStrip(t) ==
    IF t # <<>> /\ t[Len(t)] \in Whitespace
    THEN RStrip(SubSeq(t, 1, Len(t) - 1))
    ELSE t

StripLeft(t) == LStrip(t)

Strip(t) == RStrip(LStrip(t))

\* str.encode(): UTF-8 of code points below 2048 (one- and two-byte forms).
RECURSIVE Encode(_)
Encode(t) ==
    IF t = <<>> THEN <<>>
    ELSE LET c == Head(t)
         IN (IF c < 128 THEN <<c>> ELSE <<192 + (c \div 64), 128 + (c % 64)>>)
            \o Encode(Tail(t))

\* bytes.decode(): strict UTF-8 over the same range; ok = FALSE is
\* UnicodeDecodeError.
RECURSIVE DecodeFrom(_, _)
DecodeFrom(b, text) ==
    IF b = <<>> THEN [ok |-> TRUE, text |-> text]
    ELSE IF Head(b) < 128
    THEN DecodeFrom(Tail(b), Append(text, Head(b)))
    ELSE IF /\ Head(b) >= 194 /\ Head(b) <= 223
            /\ Len(b) >= 2 /\ b[2] >= 128 /\ b[2] <= 191
    THEN DecodeFrom(Tail(Tail(b)),
                    Append(text, (Head(b) - 192) * 64 + (b[2] - 128)))
    ELSE [ok |-> FALSE, text |-> <<>>]

Decode(b) == DecodeFrom(b, <<>>)

\* "\n".join(lines)
RECURSIVE Join(_)
Join(lines) ==
    IF lines = <<>> THEN <<>>
    ELSE IF Len(lines) = 1 THEN lines[1]
    ELSE lines[1] \o <<NL>> \o Join(Tail(lines))

\* the texts shown in place of an empty output:
\* "(no new output)", "No output", "No output captured"
NoNewOutput == <<40, 110, 111, 32, 110, 101, 119, 32, 111, 117, 116, 112, 117, 116, 41>>
NoOutput == <<78, 111, 32, 111, 117, 116, 112, 117, 116>>
NoOutputCaptured == NoOutput \o <<32, 99, 97, 112, 116, 117, 114, 101, 100>>

\* ------------------------------------------------------------ inputs
\* the k-th line the children write is a progress line that names its stream
\* and k: " o1 \n" on stdout, " e2 \n" on stderr
LineOf(s, k) == <<32, IF s = "stdout" THEN 111 ELSE 101, 48 + k, 32, 10>>
\* other raw lines a child may write: " \n", and a line that is not UTF-8
LineBlank == <<32, 10>>
LineBad == <<255, 10>>

\* response texts of respond_to_obsidianki: "Y", and " e-acute \n"
TextY == <<89>>
TextPadded == <<32, 233, 32, 10>>
ResponseTexts == {TextY, TextPadded}

\* exit codes a child chooses itself
NaturalCodes == {0}

\* ------------------------------------------------------------ argument builder
NoArgs == [k \in {} |-> 0]

Digit(d) ==
    CASE d = 0 -> "0" [] d = 1 -> "1" [] d = 2 -> "2" [] d = 3 -> "3"
      [] d = 4 -> "4" [] d = 5 -> "5" [] d = 6 -> "6" [] d = 7 -> "7"
      [] d = 8 -> "8" [] d = 9 -> "9"

RECURSIVE Dec(_)
Dec(n) == IF n < 10 THEN Digit(n) ELSE Dec(n \div 10) \o Digit(n % 10)

\* str(n) of an int
Str(n) == IF n < 0 THEN "-" \o Dec(0 - n) ELSE Dec(n)

\* main.py: cmd of run_obsidianki; `arguments` is the request's dict
BuildCmdMain(arguments) ==
    <<"obsidianki">>
    \o (IF "cards" \in DOMAIN arguments
        THEN <<"--cards", Str(arguments.cards)>> ELSE <<>>)
    \o (IF "additional_args" \in DOMAIN arguments
        THEN arguments.additional_args ELSE <<>>)

\* direct.py:34-36 for note_pattern in notes: cmd.extend(["--notes", note_pattern])
RECURSIVE NotesArgs(_)
NotesArgs(notes) ==
    IF notes = <<>> THEN <<>>
    ELSE <<"--notes", Head(notes)>> \o NotesArgs(Tail(notes))

\* direct.py: cmd of generate_flashcards; a parameter left at its default
\* None is a key absent from `a`, use_schema absent is False
BuildCmdDirect(a) ==
    <<"obsidianki", "--mcp">>
    \o (IF "cards" \in DOMAIN a THEN <<"--cards", Str(a.cards)>> ELSE <<>>)
    \o (IF "query" \in DOMAIN a /\ a.query # "" THEN <<"-q", a.query>> ELSE <<>>)
    \o (IF "notes" \in DOMAIN a /\ a.notes # <<>> THEN NotesArgs(a.notes) ELSE <<>>)
    \o (IF "deck" \in DOMAIN a /\ a.deck # "" THEN <<"--deck", a.deck>> ELSE <<>>)
    \o (IF "use_schema" \in DOMAIN a /\ a.use_schema THEN <<"--use-schema">> ELSE <<>>)

\* ------------------------------------------------------------ state
VARIABLES
    procs,           \* the children spawned so far, by pid 1..Len(procs)
    lists,           \* the list objects: 0 is main.py's initial pending_output,
                     \* p the list created for child p
    active_process,  \* main.py global: 0 is None, else a pid
    pending_output,  \* main.py global: the list object it is bound to
    env,             \* what surrounds the server: which server runs, the
                     \* request tasks the transport runs, the raw lines the
                     \* wrapped program may write besides its progress lines,
                     \* how many requests arrive and lines are written
    pc,              \* where each request task is suspended
    req,             \* the request a task is handling
    resp,            \* the last response each task returned
    nreq,            \* requests received
    nlines,          \* lines written by children
    appended,        \* history: lines appended to each list by the pumps
    returned,        \* history: lines each list gave to drains
    argIn,           \* argument builder: the tool called and its arguments
    argOut           \* argument builder: the vector built, <<>> before

vars == <<procs, lists, active_process, pending_output, env, pc, req, resp,
          nreq, nlines, appended, returned, argIn, argOut>>

Handlers == {"h1", "h2"}

Pids == 1..Len(procs)

NewProc(cmd) ==
    [cmd |-> cmd,
     alive |-> TRUE,            \* the operating-system process runs
     exitcode |-> None,         \* its exit status once it has stopped
     returncode |-> None,       \* Process.returncode, set by the event loop
     reaped |-> FALSE,          \* terminate() or kill() collected its exit
                                \* status before the child-watcher thread
     signals |-> {},            \* signals sent to it
     stdin |-> <<>>,            \* bytes written into its input pipe
     stdin_shut |-> FALSE,      \* it has closed its own end of its input
     stdin_closed |-> FALSE,    \* our end of its input is closing: by
                                \* close(), by the event loop that found the
                                \* pipe broken or closed the transport, or
                                \* by a write that failed
     stdin_lost |-> FALSE,      \* the loss of the input pipe was delivered
                                \* to the stream protocol: drain() raises
     forked |-> FALSE,          \* history: it has started a process
     held |-> FALSE,            \* a process it started holds its output
                                \* pipes open
     held_in |-> FALSE,         \* a process it started holds the reading
                                \* end of its input pipe open
     finished |-> FALSE,        \* the transport has finished: the exit is
                                \* recorded and every pipe is disconnected
     written |-> [s \in Streams |-> <<>>],  \* history: lines it wrote
     pipe |-> [s \in Streams |-> <<>>],     \* lines written and not yet read
     pump |-> [s \in Streams |-> "none"]]   \* none, reading, done, failed

\* seen is history: Process.returncode of the child when the request
\* arrived, and in generate_flashcards when the deadline passed
NoReq == [op |-> "none", child |-> 0, text |-> <<>>, seen |-> None, n |-> 0]

Request(op, child, n) ==
    [op |-> op, child |-> child, text |-> <<>>,
     seen |-> IF child \in 1..Len(procs) THEN procs[child].returncode ELSE None,
     n |-> n]

NoResp == [op |-> "none", kind |-> "none", output |-> <<>>, code |-> None,
           pid |-> 0, text |-> <<>>, n |-> 0]

Running(p) == p # 0 /\ procs[p].returncode = None

\* ------------------------------------------------------------ helpers
\* a task returns response r
Return(h, r) ==
    /\ resp' = [resp EXCEPT ![h] = r]
    /\ pc' = [pc EXCEPT ![h] = "idle"]
    /\ req' = [req EXCEPT ![h] = NoReq]

\* a task suspends at an await
Suspend(h, at, r) ==
    /\ pc' = [pc EXCEPT ![h] = at]
    /\ req' = [req EXCEPT ![h] = r]
    /\ resp' = resp

\* a request arrives for an idle task
Arrives(h) ==
    /\ h \in env.tasks
    /\ pc[h] = "idle"
    /\ nreq < env.requests
    /\ nreq' = nreq + 1

Response(op, kind, n) ==
    [op |-> op, kind |-> kind, output |-> <<>>, code |-> None, pid |-> 0,
     text |-> <<>>, n |-> n]

AlreadyRunningInverted ==
    active_process # 0 /\ procs[active_process].returncode # None

AlreadyRunningUnchecked == FALSE

\* main.py:89 the test that refuses a start
AlreadyRunning == active_process # 0 /\ procs[active_process].returncode = None

NoProcessToRespondSlotOnly == active_process = 0

\* main.py:130 the test that refuses a response
NoProcessToRespond == active_process = 0 \/ procs[active_process].returncode # None

NoProcessToStopSlotOnly == active_process = 0

\* main.py:180 the test that refuses a stop
NoProcessToStop == active_process = 0 \/ procs[active_process].returncode # None

NotCleared(l) == lists[l]

\* pending_output.clear(): the list a drain leaves behind
Cleared(l) == <<>>

\* output = "\n".join(pending_output); pending_output.clear()
Drain ==
    /\ lists' = [lists EXCEPT ![pending_output] = Cleared(pending_output)]
    /\ returned' = [returned EXCEPT ![pending_output] = @ \o lists[pending_output]]

\* ------------------------------------------------------------ run_obsidianki
StartArgs == {[cards |-> 3, deck |-> "Spanish"]}

SpawnFailureLeavesChild(h, cmd) ==
    /\ Return(h, Response("run", "spawn_error", nreq'))
    /\ procs' = Append(procs, NewProc(cmd))

\* main.py:105-110 the executable cannot be launched: create_subprocess_exec
\* raises before it suspends and before anything is assigned, no child
\* exists, and the exception leaves call_tool as the answer to the request
SpawnFailure(h, cmd) ==
    /\ Return(h, Response("run", "spawn_error", nreq'))
    /\ UNCHANGED procs

\* main.py:88-110 up to the await of create_subprocess_exec
RunBegin(h) ==
    /\ Arrives(h)
    /\ \E arguments \in StartArgs :
        IF AlreadyRunning
        THEN /\ Return(h, Response("run", "already_running", nreq'))
             /\ UNCHANGED procs
        ELSE \/ /\ procs' = Append(procs, NewProc(BuildCmdMain(arguments)))
                /\ Suspend(h, "run_spawn", Request("run", Len(procs) + 1, nreq'))
             \/ SpawnFailure(h, BuildCmdMain(arguments))
    /\ UNCHANGED <<lists, active_process, pending_output, env, nlines,
                   appended, returned, argIn, argOut>>

\* main.py:105-119 the await returns: bind the globals, create the pumps
RunSpawned(h) ==
    /\ pc[h] = "run_spawn"
    /\ LET c == req[h].child
       IN /\ active_process' = c
          /\ pending_output' = c
          /\ lists' = (c :> <<>>) @@ lists
          /\ appended' = (c :> <<>>) @@ appended
          /\ returned' = (c :> <<>>) @@ returned
          /\ procs' = [procs EXCEPT ![c].pump = [s \in Streams |-> "reading"]]
    /\ Suspend(h, "run_sleep", req[h])
    /\ UNCHANGED <<env, nreq, nlines, argIn, argOut>>

\* main.py:119-127 after the sleep
RunDrain(h) ==
    /\ pc[h] = "run_sleep"
    /\ Drain
    /\ Return(h, [Response("run", "started", req[h].n) EXCEPT
                    !.output = Join(lists[pending_output]),
                    !.pid = active_process])
    /\ UNCHANGED <<procs, active_process, pending_output, env, nreq, nlines,
                   appended, argIn, argOut>>

\* ------------------------------------------------------------ respond_to_obsidianki
\* the text written to the child for a response: main.py:136, 140
InputBytes(response) == Encode(Strip(response) \o <<NL>>)

\* the input pipe of child p has a reader: the child, until it stops or
\* closes its end, or a process it started that inherited the pipe
ReadsInput(p) == (procs[p].alive /\ ~procs[p].stdin_shut) \/ procs[p].held_in

\* main.py:140 stdin.write(data) on the input of child p.  On an end that is
\* closing the bytes are dropped.  On a pipe whose reading end is gone, which
\* the event loop has not found yet, the write fails, no byte enters the
\* pipe and our end starts closing.  Otherwise the bytes enter the pipe.
Write(p, data) ==
    IF procs[p].stdin_closed THEN procs
    ELSE IF ReadsInput(p) THEN [procs EXCEPT ![p].stdin = @ \o data]
    ELSE [procs EXCEPT ![p].stdin_closed = TRUE]

\* main.py:141 where stdin.drain() leaves the request after the write: it
\* returns without suspending after a write that went through; on an end
\* that is closing it yields to the event loop once
AfterWrite(p) ==
    IF procs[p].stdin_closed THEN "send_flush"
    ELSE IF ReadsInput(p) THEN "send_sleep"
    ELSE "send_broken"

\* main.py:129-141 up to the first await that suspends
SendBegin(h) ==
    /\ Arrives(h)
    /\ \E response \in ResponseTexts :
        IF NoProcessToRespond
        THEN /\ Return(h, [Response("respond", "not_running", nreq') EXCEPT
                             !.text = response])
             /\ UNCHANGED procs
        ELSE /\ procs' = Write(active_process, InputBytes(response))
             /\ Suspend(h, AfterWrite(active_process),
                        [Request("respond", active_process, nreq') EXCEPT
                           !.text = response])
    /\ UNCHANGED <<lists, active_process, pending_output, env, nlines,
                   appended, returned, argIn, argOut>>

\* main.py:141 stdin.drain() resumes after its yield.  It raises
\* ConnectionResetError when the loss of the pipe has been delivered to the
\* stream protocol by then, and returns normally otherwise.  After a write
\* that failed the loss is delivered only after drain() has looked, so
\* drain() returns and the request goes on to the sleep.
SendFlushed(h) ==
    /\ pc[h] \in {"send_flush", "send_broken"}
    /\ IF pc[h] = "send_flush" /\ procs[req[h].child].stdin_lost
       THEN Return(h, [Response("respond", "write_error", req[h].n) EXCEPT
                         !.text = req[h].text])
       ELSE Suspend(h, "send_sleep", req[h])
    /\ UNCHANGED <<procs, lists, active_process, pending_output, env, nreq,
                   nlines, appended, returned, argIn, argOut>>

\* main.py:144-158 after the sleep
SendDrain(h) ==
    /\ pc[h] = "send_sleep"
    /\ Drain
    /\ Return(h, [Response("respond",
                           IF procs[active_process].returncode # None
                           THEN "sent_completed" ELSE "sent", req[h].n)
                  EXCEPT !.output = Join(lists[pending_output]),
                         !.text = req[h].text])
    /\ UNCHANGED <<procs, active_process, pending_output, env, nreq, nlines,
                   appended, argIn, argOut>>

\* ------------------------------------------------------------ get_obsidianki_output
\* main.py:160-167
GetBegin(h) ==
    /\ Arrives(h)
    /\ IF active_process = 0
       THEN Return(h, Response("get", "no_process", nreq'))
       ELSE Suspend(h, "get_sleep", Request("get", active_process, nreq'))
    /\ UNCHANGED <<procs, lists, active_process, pending_output, env, nlines,
                   appended, returned, argIn, argOut>>

StatusRunning(p) == None

\* main.py:172 the status is derived from returncode when the answer is
\* built: None is "running", a code is "completed (exit code: ...)"
Status(p) == procs[p].returncode

\* main.py:167-177 after the sleep
GetDrain(h) ==
    /\ pc[h] = "get_sleep"
    /\ Drain
    /\ Return(h, [Response("get", "status", req[h].n) EXCEPT
                    !.output = IF Join(lists[pending_output]) # <<>>
                               THEN Join(lists[pending_output]) ELSE NoNewOutput,
                    !.code = Status(active_process)])
    /\ UNCHANGED <<procs, active_process, pending_output, env, nreq, nlines,
                   appended, argIn, argOut>>

\* ------------------------------------------------------------ stop_obsidianki
\* Process.terminate() and Process.kill() poll the child before they send
\* the signal.  The signal reaches a process that still runs.  For one that
\* has stopped and whose exit is not recorded yet the poll races with the
\* child-watcher thread for the exit status: `reaps` says that the poll
\* collected it.  Nothing is sent to a process that has stopped.
SendSignal(p, sig, reaps) ==
    IF procs[p].alive THEN [procs EXCEPT ![p].signals = @ \cup {sig}]
    ELSE IF reaps /\ procs[p].returncode = None
    THEN [procs EXCEPT ![p].reaped = TRUE]
    ELSE procs

\* main.py:186 active_process.terminate()
Terminate(p, reaps) == SendSignal(p, SIGTERM, reaps)

\* main.py:179-187 up to the await of wait()
StopBegin(h) ==
    /\ Arrives(h)
    /\ IF NoProcessToStop
       THEN /\ Return(h, Response("stop", "nothing_to_stop", nreq'))
            /\ UNCHANGED procs
       ELSE /\ \E reaps \in BOOLEAN :
                 procs' = Terminate(active_process, reaps)
            /\ Suspend(h, "stop_wait", Request("stop", active_process, nreq'))
    /\ UNCHANGED <<lists, active_process, pending_output, env, nlines,
                   appended, returned, argIn, argOut>>

WaitOverAtExit(c) == procs[c].returncode # None

\* main.py:187 await active_process.wait() on a child whose exit was not yet
\* recorded when wait() was called: the waiter is woken when the transport
\* finishes, once the exit is recorded and all three pipes are disconnected,
\* whatever became of the pumps
WaitOver(c) == procs[c].finished

\* main.py:187-192 wait() returns
StopWaited(h) ==
    /\ pc[h] = "stop_wait"
    /\ WaitOver(req[h].child)
    /\ Return(h, [Response("stop", "stopped", req[h].n) EXCEPT
                    !.code = procs[active_process].returncode])
    /\ UNCHANGED <<procs, lists, active_process, pending_output, env, nreq,
                   nlines, appended, returned, argIn, argOut>>

\* ------------------------------------------------------------ the child
\* the child writes one line to one of its output streams
ChildWrite(p) ==
    /\ procs[p].alive
    /\ SIGKILL \notin procs[p].signals
    /\ nlines < env.lines
    /\ nlines' = nlines + 1
    /\ \E s \in Streams : \E line \in {LineOf(s, nlines')} \cup env.childLines :
        procs' = [procs EXCEPT ![p].pipe[s] = Append(@, line),
                               ![p].written[s] = Append(@, line)]
    /\ UNCHANGED <<lists, active_process, pending_output, env, pc, req, resp,
                   nreq, appended, returned, argIn, argOut>>

\* the exit statuses the child can end with now
ExitCodes(p) ==
    IF SIGKILL \in procs[p].signals THEN {0 - SIGKILL}
    ELSE NaturalCodes \cup (IF SIGTERM \in procs[p].signals THEN {0 - SIGTERM} ELSE {})

\* the child stops: by itself, or by a signal it was sent
ChildExit(p) ==
    /\ procs[p].alive
    /\ \E code \in ExitCodes(p) :
        procs' = [procs EXCEPT ![p].alive = FALSE, ![p].exitcode = Some(code)]
    /\ UNCHANGED <<lists, active_process, pending_output, env, pc, req, resp,
                   nreq, nlines, appended, returned, argIn, argOut>>

\* the child closes its end of its input and runs on
ChildCloseInput(p) ==
    /\ procs[p].alive
    /\ SIGKILL \notin procs[p].signals
    /\ ~procs[p].stdin_shut
    /\ Cardinality({q \in Pids : procs[q].stdin_shut}) < MaxShuts
    /\ procs' = [procs EXCEPT ![p].stdin_shut = TRUE]
    /\ UNCHANGED <<lists, active_process, pending_output, env, pc, req, resp,
                   nreq, nlines, appended, returned, argIn, argOut>>

\* the event loop finds the input pipe of child p without a reader and
\* closes our end of it
PipeBroken(p) ==
    /\ ~ReadsInput(p)
    /\ ~procs[p].stdin_closed
    /\ procs' = [procs EXCEPT ![p].stdin_closed = TRUE]
    /\ UNCHANGED <<lists, active_process, pending_output, env, pc, req, resp,
                   nreq, nlines, appended, returned, argIn, argOut>>

\* the event loop delivers the loss of the closing input pipe of child p to
\* the stream protocol, one or two turns of the loop after the close.  After
\* a write that failed it does so only once drain() has looked:
\* main.py:141
StdinLost(p) ==
    /\ procs[p].stdin_closed
    /\ ~procs[p].stdin_lost
    /\ \A h \in Handlers : ~(pc[h] = "send_broken" /\ req[h].child = p)
    /\ procs' = [procs EXCEPT ![p].stdin_lost = TRUE]
    /\ UNCHANGED <<lists, active_process, pending_output, env, pc, req, resp,
                   nreq, nlines, appended, returned, argIn, argOut>>

\* the event loop learns of the exit from the child-watcher thread and sets
\* Process.returncode: the exit status the thread collected, or LostStatus
\* when terminate() or kill() had collected it first
ProcessExited(p) ==
    /\ ~procs[p].alive
    /\ procs[p].returncode = None
    /\ procs' = [procs EXCEPT ![p].returncode =
                     IF procs[p].reaped THEN Some(LostStatus)
                     ELSE procs[p].exitcode]
    /\ UNCHANGED <<lists, active_process, pending_output, env, pc, req, resp,
                   nreq, nlines, appended, returned, argIn, argOut>>

\* the child starts a process that outlives it and inherits its output
\* pipes, its input pipe, or all of them
ChildFork(p) ==
    /\ procs[p].alive
    /\ SIGKILL \notin procs[p].signals
    /\ ~procs[p].forked
    /\ Cardinality({q \in Pids : procs[q].forked}) < MaxForks
    /\ \E outs \in BOOLEAN, ins \in BOOLEAN :
         /\ outs \/ ins
         /\ ins => ~procs[p].stdin_shut
         /\ procs' = [procs EXCEPT ![p].held = outs, ![p].held_in = ins,
                                   ![p].forked = TRUE]
    /\ UNCHANGED <<lists, active_process, pending_output, env, pc, req, resp,
                   nreq, nlines, appended, returned, argIn, argOut>>

\* the process the child started ends and closes the pipes it held
BackgroundExit(p) ==
    /\ procs[p].held \/ procs[p].held_in
    /\ procs' = [procs EXCEPT ![p].held = FALSE, ![p].held_in = FALSE]
    /\ UNCHANGED <<lists, active_process, pending_output, env, pc, req, resp,
                   nreq, nlines, appended, returned, argIn, argOut>>

\* The event loop closes the transport of child p once the exit is recorded
\* and both output pipes are at their end, which no process holds any more:
\* that closes our end of the input pipe, whoever still reads it
TransportClose(p) ==
    /\ procs[p].returncode # None
    /\ ~procs[p].held
    /\ ~procs[p].stdin_closed
    /\ procs' = [procs EXCEPT ![p].stdin_closed = TRUE]
    /\ UNCHANGED <<lists, active_process, pending_output, env, pc, req, resp,
                   nreq, nlines, appended, returned, argIn, argOut>>

\* The event loop finishes the transport of child p: the exit is recorded and
\* every process that held the pipes has closed them.  The end of data of an
\* output pipe wakes its pump before the transport finishes, and the pump
\* reads to its end without suspending, so no pump is still reading then.
\* From here wait() has returned for its waiters (main.py:187, direct.py:80,
\* 89) and kill() raises (direct.py:88).
ConnectionLost(p) ==
    /\ ~procs[p].finished
    /\ procs[p].returncode # None
    /\ procs[p].stdin_lost
    /\ ~procs[p].alive
    /\ ~procs[p].held
    /\ \A s \in Streams : procs[p].pump[s] # "reading"
    /\ procs' = [procs EXCEPT ![p].finished = TRUE]
    /\ UNCHANGED <<lists, active_process, pending_output, env, pc, req, resp,
                   nreq, nlines, appended, returned, argIn, argOut>>

\* ------------------------------------------------------------ read_stream
AccumulateFirst(output_list, decoded) ==
    IF decoded # <<>> THEN <<decoded>> \o output_list ELSE output_list

\* main.py:79-81, direct.py:61-63, 70-72: what one line adds to the list
Accumulate(output_list, decoded) ==
    IF decoded # <<>> THEN Append(output_list, decoded) ELSE output_list

\* The loop of a pump over the lines that have arrived: readline() does not
\* suspend while a whole line is buffered, so the task takes them all in one
\* turn.  A line that does not decode raises and ends the task, the lines
\* after it stay unread.
RECURSIVE ReadLines(_, _)
ReadLines(pipe, output_list) ==
    IF pipe = <<>> THEN [list |-> output_list, rest |-> <<>>, failed |-> FALSE]
    ELSE LET d == Decode(Head(pipe))
         IN IF d.ok
            THEN ReadLines(Tail(pipe), Accumulate(output_list, Strip(d.text)))
            ELSE [list |-> output_list, rest |-> Tail(pipe), failed |-> TRUE]

OutputListGlobal(p) == pending_output

\* main.py:112-116 the list a pump of child p appends to: read_stream gets
\* the list object that pending_output named when the task was created, and
\* keeps it when the name is bound to a new list; direct.py:54 output_lines
\* of the call
OutputList(p) == p

\* main.py:73-82 read_stream, direct.py:56-72 read_output / read_error:
\* one turn of the pump of stream s of child p
Pump(p, s) ==
    /\ procs[p].pump[s] = "reading"
    /\ IF procs[p].pipe[s] # <<>>
       THEN LET r == ReadLines(procs[p].pipe[s], lists[OutputList(p)])
                h == ReadLines(procs[p].pipe[s], appended[OutputList(p)])
            IN /\ procs' = [procs EXCEPT
                              ![p].pipe[s] = r.rest,
                              ![p].pump[s] = IF r.failed THEN "failed" ELSE @]
               /\ lists' = [lists EXCEPT ![OutputList(p)] = r.list]
               /\ appended' = [appended EXCEPT ![OutputList(p)] = h.list]
       ELSE \* readline() returns b"" at end of data, when every process
            \* that holds the pipe has closed it: the task ends
            /\ ~procs[p].alive
            /\ ~procs[p].held
            /\ procs' = [procs EXCEPT ![p].pump[s] = "done"]
            /\ UNCHANGED <<lists, appended>>
    /\ UNCHANGED <<active_process, pending_output, env, pc, req, resp, nreq,
                   nlines, returned, argIn, argOut>>

\* ------------------------------------------------------------ interactive mode
Init ==
    /\ procs = <<>>
    /\ lists = (0 :> <<>>)
    /\ appended = (0 :> <<>>)
    /\ returned = (0 :> <<>>)
    /\ active_process = 0
    /\ pending_output = 0
    /\ env = [server |-> "main", tasks |-> {"h1"}, childLines |-> {},
              requests |-> MaxRequests, lines |-> MaxLines]
    /\ pc = [h \in Handlers |-> "idle"]
    /\ req = [h \in Handlers |-> NoReq]
    /\ resp = [h \in Handlers |-> NoResp]
    /\ nreq = 0
    /\ nlines = 0
    /\ argIn = NoArgs
    /\ argOut = <<>>

Next ==
    \/ \E h \in Handlers : RunBegin(h)
    \/ \E h \in Handlers : RunSpawned(h)
    \/ \E h \in Handlers : RunDrain(h)
    \/ \E h \in Handlers : SendBegin(h)
    \/ \E h \in Handlers : SendFlushed(h)
    \/ \E h \in Handlers : SendDrain(h)
    \/ \E h \in Handlers : GetBegin(h)
    \/ \E h \in Handlers : GetDrain(h)
    \/ \E h \in Handlers : StopBegin(h)
    \/ \E h \in Handlers : StopWaited(h)
    \/ \E p \in Pids : ChildWrite(p)
    \/ \E p \in Pids : ChildExit(p)
    \/ \E p \in Pids : ProcessExited(p)
    \/ \E p \in Pids : ChildCloseInput(p)
    \/ \E p \in Pids : PipeBroken(p)
    \/ \E p \in Pids : TransportClose(p)
    \/ \E p \in Pids : StdinLost(p)
    \/ \E p \in Pids : ChildFork(p)
    \/ \E p \in Pids : BackgroundExit(p)
    \/ \E p \in Pids : ConnectionLost(p)
    \/ \E p \in Pids, s \in Streams : Pump(p, s)

Spec == Init /\ [][Next]_vars

\* ------------------------------------------------------------ concurrent requests
\* The transport hands every request to a task of its own: a request can
\* arrive while the task of another one is suspended at an await
InitConcurrent ==
    /\ procs = <<>>
    /\ lists = (0 :> <<>>)
    /\ appended = (0 :> <<>>)
    /\ returned = (0 :> <<>>)
    /\ active_process = 0
    /\ pending_output = 0
    /\ env = [server |-> "main", tasks |-> {"h1", "h2"}, childLines |-> {},
              requests |-> MaxConcurrent, lines |-> MaxLines]
    /\ pc = [h \in Handlers |-> "idle"]
    /\ req = [h \in Handlers |-> NoReq]
    /\ resp = [h \in Handlers |-> NoResp]
    /\ nreq = 0
    /\ nlines = 0
    /\ argIn = NoArgs
    /\ argOut = <<>>

SpecConcurrent == InitConcurrent /\ [][Next]_vars

\* ------------------------------------------------------------ several sessions
\* Three requests, against children that write and exit and neither start
\* processes nor close their input
InitSessions ==
    /\ procs = <<>>
    /\ lists = (0 :> <<>>)
    /\ appended = (0 :> <<>>)
    /\ returned = (0 :> <<>>)
    /\ active_process = 0
    /\ pending_output = 0
    /\ env = [server |-> "main", tasks |-> {"h1"}, childLines |-> {},
              requests |-> MaxSessionRequests, lines |-> MaxLines]
    /\ pc = [h \in Handlers |-> "idle"]
    /\ req = [h \in Handlers |-> NoReq]
    /\ resp = [h \in Handlers |-> NoResp]
    /\ nreq = 0
    /\ nlines = 0
    /\ argIn = NoArgs
    /\ argOut = <<>>

NextSessions ==
    \/ \E h \in Handlers : RunBegin(h)
    \/ \E h \in Handlers : RunSpawned(h)
    \/ \E h \in Handlers : RunDrain(h)
    \/ \E h \in Handlers : SendBegin(h)
    \/ \E h \in Handlers : SendFlushed(h)
    \/ \E h \in Handlers : SendDrain(h)
    \/ \E h \in Handlers : GetBegin(h)
    \/ \E h \in Handlers : GetDrain(h)
    \/ \E h \in Handlers : StopBegin(h)
    \/ \E h \in Handlers : StopWaited(h)
    \/ \E p \in Pids : ChildWrite(p)
    \/ \E p \in Pids : ChildExit(p)
    \/ \E p \in Pids : ProcessExited(p)
    \/ \E p \in Pids : PipeBroken(p)
    \/ \E p \in Pids : TransportClose(p)
    \/ \E p \in Pids : StdinLost(p)
    \/ \E p \in Pids : ConnectionLost(p)
    \/ \E p \in Pids, s \in Streams : Pump(p, s)

SpecSessions == InitSessions /\ [][NextSessions]_vars

\* ------------------------------------------------------------ generate_flashcards
GenArgs == {[cards |-> 3, deck |-> "Spanish"]}

\* direct.py:24-49 up to the await of create_subprocess_exec
GenBegin(h) ==
    /\ Arrives(h)
    /\ \E a \in GenArgs :
        \/ /\ procs' = Append(procs, NewProc(BuildCmdDirect(a)))
           /\ Suspend(h, "gen_spawn", Request("gen", Len(procs) + 1, nreq'))
        \/ \* the executable cannot be launched: direct.py:93-95
           /\ Return(h, Response("gen", "error", nreq'))
           /\ UNCHANGED procs
    /\ UNCHANGED <<lists, active_process, pending_output, env, nlines,
                   appended, returned, argIn, argOut>>

\* direct.py:44-80 the await returns: close the input, create output_lines
\* and the two read tasks, hand process.wait() to wait_for
GenSpawned(h) ==
    /\ pc[h] = "gen_spawn"
    /\ LET c == req[h].child
       IN /\ procs' = [procs EXCEPT ![c].stdin_closed = TRUE,
                                    ![c].pump = [s \in Streams |-> "reading"]]
          /\ lists' = (c :> <<>>) @@ lists
          /\ appended' = (c :> <<>>) @@ appended
          /\ returned' = (c :> <<>>) @@ returned
    /\ Suspend(h, "gen_wait_call", req[h])
    /\ UNCHANGED <<active_process, pending_output, env, nreq, nlines, argIn,
                   argOut>>

\* direct.py:80 process.wait() runs inside wait_for: it returns at once when
\* the exit is already recorded, whatever the pipes and the pumps, and the
\* request goes on to direct.py:81; otherwise it waits for the transport to
\* finish
GenWaitBegin(h) ==
    /\ pc[h] = "gen_wait_call"
    /\ Suspend(h, IF procs[req[h].child].returncode # None
                  THEN "gen_join_out" ELSE "gen_wait", req[h])
    /\ UNCHANGED <<procs, lists, active_process, pending_output, env, nreq,
                   nlines, appended, returned, argIn, argOut>>

\* direct.py:80 the waiting process.wait() returns inside wait_for
GenExited(h) ==
    /\ pc[h] = "gen_wait"
    /\ WaitOver(req[h].child)
    /\ Suspend(h, "gen_join_out", req[h])
    /\ UNCHANGED <<procs, lists, active_process, pending_output, env, nreq,
                   nlines, appended, returned, argIn, argOut>>

\* the result text of a run: direct.py:84, 90
Result(output_lines, placeholder) ==
    IF output_lines # <<>> THEN Join(output_lines) ELSE placeholder

\* direct.py:81-85 await read_task, then await error_task: the await returns
\* when the task has ended and raises what the task raised, which
\* direct.py:93-95 turns into the error result
GenJoin(h) ==
    /\ pc[h] \in {"gen_join_out", "gen_join_err"}
    /\ LET c == req[h].child
           s == IF pc[h] = "gen_join_out" THEN "stdout" ELSE "stderr"
       IN /\ procs[c].pump[s] # "reading"
          /\ IF procs[c].pump[s] = "failed"
             THEN Return(h, [Response("gen", "error", req[h].n) EXCEPT !.pid = c])
             ELSE IF pc[h] = "gen_join_out"
             THEN Suspend(h, "gen_join_err", req[h])
             ELSE Return(h, [Response("gen", "completed", req[h].n) EXCEPT
                               !.pid = c,
                               !.output = Result(lists[c], NoOutput),
                               !.code = procs[c].returncode])
    /\ UNCHANGED <<procs, lists, active_process, pending_output, env, nreq,
                   nlines, appended, returned, argIn, argOut>>

\* direct.py:88 Process.kill() raises ProcessLookupError once the transport
\* has finished
KillRaises(p) == procs[p].finished

\* direct.py:88 Process.kill() on a transport that has not finished
Kill(p, reaps) == SendSignal(p, SIGKILL, reaps)

\* the timeout result: direct.py:90-91
TimeoutResponse(h) ==
    [Response("gen", "timeout", req[h].n) EXCEPT
        !.pid = req[h].child,
        !.output = Result(lists[req[h].child], NoOutputCaptured)]

\* direct.py:80 the deadline passes before wait() returned: wait_for cancels
\* wait() and yields to the event loop until the cancellation is done
GenTimeout(h) ==
    /\ pc[h] = "gen_wait"
    /\ ~WaitOver(req[h].child)
    /\ Suspend(h, "gen_cancel",
               [req[h] EXCEPT !.seen = procs[req[h].child].returncode])
    /\ UNCHANGED <<procs, lists, active_process, pending_output, env, nreq,
                   nlines, appended, returned, argIn, argOut>>

\* direct.py:87-95 wait_for raises TimeoutError: kill, then wait(), which
\* returns at once when the exit is already recorded.  A kill() that raises
\* leaves through the outer except as the error result.
GenKill(h) ==
    /\ pc[h] = "gen_cancel"
    /\ LET c == req[h].child
       IN IF KillRaises(c)
          THEN /\ Return(h, [Response("gen", "error", req[h].n) EXCEPT !.pid = c])
               /\ UNCHANGED procs
          ELSE /\ \E reaps \in BOOLEAN : procs' = Kill(c, reaps)
               /\ IF procs[c].returncode # None
                  THEN Return(h, TimeoutResponse(h))
                  ELSE Suspend(h, "gen_kill_wait", req[h])
    /\ UNCHANGED <<lists, active_process, pending_output, env, nreq, nlines,
                   appended, returned, argIn, argOut>>

\* direct.py:89 await process.wait() after the kill
KillWaitOver(c) == WaitOver(c)

\* direct.py:89-91 the killed child is gone: the timeout result
GenKilled(h) ==
    /\ pc[h] = "gen_kill_wait"
    /\ KillWaitOver(req[h].child)
    /\ Return(h, TimeoutResponse(h))
    /\ UNCHANGED <<procs, lists, active_process, pending_output, env, nreq,
                   nlines, appended, returned, argIn, argOut>>

\* ------------------------------------------------------------ one-shot mode
InitDirect ==
    /\ procs = <<>>
    /\ lists = (0 :> <<>>)
    /\ appended = (0 :> <<>>)
    /\ returned = (0 :> <<>>)
    /\ active_process = 0
    /\ pending_output = 0
    /\ env = [server |-> "direct", tasks |-> {"h1"},
              childLines |-> {LineBlank, LineBad},
              requests |-> MaxRuns, lines |-> MaxOutput]
    /\ pc = [h \in Handlers |-> "idle"]
    /\ req = [h \in Handlers |-> NoReq]
    /\ resp = [h \in Handlers |-> NoResp]
    /\ nreq = 0
    /\ nlines = 0
    /\ argIn = NoArgs
    /\ argOut = <<>>

NextDirect ==
    \/ \E h \in Handlers : GenBegin(h)
    \/ \E h \in Handlers : GenSpawned(h)
    \/ \E h \in Handlers : GenWaitBegin(h)
    \/ \E h \in Handlers : GenExited(h)
    \/ \E h \in Handlers : GenJoin(h)
    \/ \E h \in Handlers : GenTimeout(h)
    \/ \E h \in Handlers : GenKill(h)
    \/ \E h \in Handlers : GenKilled(h)
    \/ \E p \in Pids : ChildWrite(p)
    \/ \E p \in Pids : ChildFork(p)
    \/ \E p \in Pids : BackgroundExit(p)
    \/ \E p \in Pids : PipeBroken(p)
    \/ \E p \in Pids : TransportClose(p)
    \/ \E p \in Pids : StdinLost(p)
    \/ \E p \in Pids : ConnectionLost(p)
    \/ \E p \in Pids : ChildExit(p)
    \/ \E p \in Pids : ProcessExited(p)
    \/ \E p \in Pids, s \in Streams : Pump(p, s)

SpecDirect == InitDirect /\ [][NextDirect]_vars

\* ------------------------------------------------------------ either server
InitEither == Init \/ InitDirect

NextEither ==
    \/ env.server = "main" /\ Next
    \/ env.server = "direct" /\ NextDirect

SpecEither == InitEither /\ [][NextEither]_vars

\* ------------------------------------------------------------ output of a session
\* Requests of the interactive server against a child that writes several
\* lines, blank ones among them, or one call of generate_flashcards
InitStreams ==
    /\ procs = <<>>
    /\ lists = (0 :> <<>>)
    /\ appended = (0 :> <<>>)
    /\ returned = (0 :> <<>>)
    /\ active_process = 0
    /\ pending_output = 0
    /\ env = [server |-> "main", tasks |-> {"h1"}, childLines |-> {LineBlank},
              requests |-> MaxRequests, lines |-> MaxOutput]
    /\ pc = [h \in Handlers |-> "idle"]
    /\ req = [h \in Handlers |-> NoReq]
    /\ resp = [h \in Handlers |-> NoResp]
    /\ nreq = 0
    /\ nlines = 0
    /\ argIn = NoArgs
    /\ argOut = <<>>

SpecStreams == (InitStreams \/ InitDirect) /\ [][NextEither]_vars

\* The scheduling of one-shot mode: the event loop runs every task that can
\* run (the request, the pumps), records every exit, the deadline of wait_for
\* passes unless wait() returns first, a transport whose pipes are all
\* closed finishes, and a child that was sent SIGKILL stops.  Nothing makes
\* the wrapped program write, exit by itself or start a process, and nothing
\* makes a process it started end.
FairDirect ==
    /\ WF_vars(\E h \in Handlers :
                  \/ GenSpawned(h) \/ GenWaitBegin(h) \/ GenExited(h)
                  \/ GenTimeout(h) \/ GenKill(h) \/ GenJoin(h)
                  \/ GenKilled(h))
    /\ \A p \in 1..MaxRuns :
         /\ WF_vars(p \in Pids /\ ProcessExited(p))
         /\ WF_vars(p \in Pids /\ TransportClose(p))
         /\ WF_vars(p \in Pids /\ StdinLost(p))
         /\ WF_vars(p \in Pids /\ ConnectionLost(p))
         /\ WF_vars(p \in Pids /\ SIGKILL \in procs[p].signals /\ ChildExit(p))
         /\ \A s \in Streams : WF_vars(p \in Pids /\ Pump(p, s))

SpecDirectFair == InitDirect /\ [][NextDirect]_vars /\ FairDirect

\* ------------------------------------------------------------ the argument builder alone
\* an optional value: absent, or one of S
Opt(S) == {<<>>} \cup {<<x>> : x \in S}

SeqsUpTo(S, n) == UNION {[1..m -> S] : m \in 0..n}

ArgKeys == {"cards", "query", "notes", "deck", "use_schema", "additional_args"}

\* the arguments that hold the values present among the six
MkArgs(cards, query, notes, deck, use_schema, additional_args) ==
    LET opt(k) == CASE k = "cards" -> cards
                    [] k = "query" -> query
                    [] k = "notes" -> notes
                    [] k = "deck" -> deck
                    [] k = "use_schema" -> use_schema
                    [] k = "additional_args" -> additional_args
    IN [k \in {x \in ArgKeys : opt(x) # <<>>} |-> opt(k)[1]]

CardCounts == {0, 3, 12, 0 - 7}
NotePatterns == {"frontend/*", "docs/*.md:3"}

\* calls of generate_flashcards
DirectInputs ==
    {[tool |-> "generate_flashcards",
      arguments |-> MkArgs(c, q, n, d, u, <<>>)] :
        c \in Opt(CardCounts), q \in Opt({"", "verbs"}),
        n \in Opt(SeqsUpTo(NotePatterns, MaxNotes)),
        d \in Opt({"", "Spanish"}), u \in Opt(BOOLEAN)}

\* calls of run_obsidianki; its schema names cards and additional_args, and
\* the dict may carry other keys
MainInputs ==
    {[tool |-> "run_obsidianki",
      arguments |-> MkArgs(c, <<>>, <<>>, d, <<>>, x)] :
        c \in Opt(CardCounts), d \in Opt({"Spanish"}),
        x \in Opt({<<>>, <<"--use-schema">>, <<"--deck", "Spanish">>})}

\* main.py:95-100, direct.py:25-42: the command is built
Build ==
    /\ argOut = <<>>
    /\ argOut' = IF argIn.tool = "run_obsidianki"
                 THEN BuildCmdMain(argIn.arguments)
                 ELSE BuildCmdDirect(argIn.arguments)
    /\ UNCHANGED <<procs, lists, active_process, pending_output, env, pc, req,
                   resp, nreq, nlines, appended, returned, argIn>>

InitArgs ==
    /\ procs = <<>>
    /\ lists = (0 :> <<>>)
    /\ appended = (0 :> <<>>)
    /\ returned = (0 :> <<>>)
    /\ active_process = 0
    /\ pending_output = 0
    /\ env = [server |-> "none", tasks |-> {}, childLines |-> {},
              requests |-> 0, lines |-> 0]
    /\ pc = [h \in Handlers |-> "idle"]
    /\ req = [h \in Handlers |-> NoReq]
    /\ resp = [h \in Handlers |-> NoResp]
    /\ nreq = 0
    /\ nlines = 0
    /\ argIn \in DirectInputs \cup MainInputs
    /\ argOut = <<>>

NextArgs == Build

SpecArgs == InitArgs /\ [][NextArgs]_vars

\* ------------------------------------------------------------ vocabulary of the claims
\* task h receives a request for `op` in this step
Received(h, op) ==
    /\ nreq' = nreq + 1
    /\ \/ pc'[h] # "idle" /\ req'[h].n = nreq' /\ req'[h].op = op
       \/ pc'[h] = "idle" /\ resp'[h].n = nreq' /\ resp'[h].op = op

\* task h ends its grace wait, drains and answers in this step
DrainStep(h) ==
    /\ pc[h] \in {"run_sleep", "send_sleep", "get_sleep"}
    /\ pc'[h] = "idle"

\* the session state of the specification: Running until the exit is recorded
RunningPids == {p \in Pids : procs[p].returncode = None}

\* the text of progress line k of stream s as a snapshot shows it
TextOf(s, k) == <<IF s = "stdout" THEN 111 ELSE 101, 48 + k>>

\* what a snapshot of get_obsidianki_output shows for the text of a drain
Shown(op, text) == IF op = "get" /\ text = <<>> THEN NoNewOutput ELSE text

\* the slot, the children and the buffers
Session == <<procs, lists, active_process, pending_output, appended, returned>>

\* ------------------------------------------------------------ claims
\* C1: in interactive mode, with requests handled one at a time, at most one
\* child spawned by the server is Running in any reachable state.
C1_SingleActiveSession == Cardinality(RunningPids) <= 1

\* a second child runs after the first one has terminated
C1_Witness == Len(procs) >= 2 /\ Cardinality(RunningPids) = 1

\* C2: a Start that arrives while the current child is Running answers
\* AlreadyRunning at once and changes nothing: no child is spawned, the slot,
\* the signals sent and the output buffer stay as they were.
C2_ConflictChangesNothing ==
    [][\A h \in Handlers :
        (Received(h, "run") /\ Running(active_process))
        => /\ pc'[h] = "idle"
           /\ resp'[h].kind = "already_running"
           /\ UNCHANGED Session]_vars

\* the conflict was answered while the buffer held undrained output
C2_Witness ==
    /\ resp["h1"].kind = "already_running"
    /\ Running(active_process)
    /\ lists[pending_output] # <<>>

\* C3: every drain returns exactly the lines appended to the buffer since the
\* previous drain and leaves the buffer empty (so a GetOutput with nothing
\* appended since the last drain shows no output), and for every list the
\* lines given to drains followed by the lines still buffered are the lines
\* the pumps appended: no line is returned twice, none is lost.
C3_DrainOnce ==
    [][/\ \A l \in DOMAIN lists' : returned'[l] \o lists'[l] = appended'[l]
       /\ \A h \in Handlers :
            DrainStep(h)
            => LET l == pending_output
                   fresh == SubSeq(appended[l], Len(returned[l]) + 1,
                                   Len(appended[l]))
               IN /\ resp'[h].output = Shown(req[h].op, Join(fresh))
                  /\ lists'[l] = <<>>]_vars

\* a GetOutput showed no new output after the session's line had been drained
C3_Witness ==
    /\ resp["h1"].op = "get"
    /\ resp["h1"].output = NoNewOutput
    /\ returned[pending_output] # <<>>
    /\ lists[pending_output] = <<>>

\* the child of the session wrote exactly one line, which the pumps have
\* taken, and its exit with code 0 is recorded
OneLineThenExit0(c) ==
    /\ Len(procs[c].written["stdout"]) + Len(procs[c].written["stderr"]) = 1
    /\ procs[c].pipe["stdout"] = <<>> /\ procs[c].pipe["stderr"] = <<>>
    /\ procs[c].returncode = Some(0)

\* the text of the only line child c wrote
OnlyLine(c) ==
    IF procs[c].written["stdout"] # <<>>
    THEN Strip(Decode(procs[c].written["stdout"][1]).text)
    ELSE Strip(Decode(procs[c].written["stderr"][1]).text)

\* the GetOutput that follows the Start of the session drains in this step
FirstGetDrains(h) ==
    /\ pc[h] = "get_sleep" /\ pc'[h] = "idle"
    /\ resp[h].kind = "started" /\ resp[h].pid = active_process

\* C4 as claimed, in the case most favourable to it (the line was appended
\* and the exit recorded before GetOutput was called): the GetOutput that
\* follows returns exactly that line with status completed(0).
C4_Original ==
    [][\A h \in Handlers :
        (FirstGetDrains(h) /\ OneLineThenExit0(active_process)
         /\ req[h].seen = Some(0))
        => /\ resp'[h].output = OnlyLine(active_process)
           /\ resp'[h].code = Some(0)]_vars

\* C4 amended: when the child has written one line and exited with code 0 and
\* the line is appended and the exit recorded by the time GetOutput drains,
\* the snapshot of Start followed by the snapshot of GetOutput is exactly that
\* line, stripped: GetOutput returns it only if the drain of Start did not,
\* and shows no new output otherwise; the status is completed(0).
C4_OneLineOnceAcrossStartAndGet ==
    [][\A h \in Handlers :
        (FirstGetDrains(h) /\ OneLineThenExit0(active_process))
        => /\ resp'[h].code = Some(0)
           /\ \E s \in Streams, k \in 1..MaxLines + 1 :
                /\ procs[active_process].written[s] = <<LineOf(s, k)>>
                /\ \/ resp[h].output = <<>> /\ resp'[h].output = TextOf(s, k)
                   \/ /\ resp[h].output = TextOf(s, k)
                      /\ resp'[h].output = NoNewOutput]_vars

\* GetOutput returned the line and completed(0) after a Start that returned
\* nothing
C4_Witness ==
    /\ nreq = 2 /\ Len(procs) = 1
    /\ resp["h1"].op = "get"
    /\ resp["h1"].code = Some(0)
    /\ resp["h1"].output = TextOf("stdout", 1)
    /\ procs[1].written["stdout"] = <<LineOf("stdout", 1)>>

\* the current session's child exited by itself and the exit is recorded
ExitedNaturally(p) ==
    p # 0 /\ procs[p].returncode # None /\ procs[p].signals = {}

\* C5 as claimed: Stop on a session whose child already exited returns the
\* recorded exit code, sends no signal and leaves the session unchanged.
C5_Original ==
    [][\A h \in Handlers :
        (Received(h, "stop") /\ ExitedNaturally(active_process))
        => /\ resp'[h].code = procs[active_process].returncode
           /\ UNCHANGED Session]_vars

\* C5 amended: Stop on a session whose child already exited answers at once
\* with the "no active process to stop" message, which carries no exit code,
\* sends no signal and leaves the session unchanged.
C5_StopAfterExitIsRefused ==
    [][\A h \in Handlers :
        (Received(h, "stop") /\ ExitedNaturally(active_process))
        => /\ pc'[h] = "idle"
           /\ resp'[h].kind = "nothing_to_stop"
           /\ resp'[h].code = None
           /\ UNCHANGED Session]_vars

\* Stop was refused for a session that had exited with a recorded code
C5_Witness ==
    /\ resp["h1"].kind = "nothing_to_stop"
    /\ ExitedNaturally(active_process)

\* C6: SendInput with no Running session (none started, or exit recorded) and
\* Stop with no session ever started answer NotRunning as a normal response,
\* write nothing, signal nothing and leave the slot and the buffer unchanged.
C6_NotRunningChangesNothing ==
    [][\A h \in Handlers :
        /\ (Received(h, "respond") /\ ~Running(active_process))
           => /\ pc'[h] = "idle"
              /\ resp'[h].kind = "not_running"
              /\ UNCHANGED Session
        /\ (Received(h, "stop") /\ active_process = 0)
           => /\ pc'[h] = "idle"
              /\ resp'[h].kind = "nothing_to_stop"
              /\ UNCHANGED Session]_vars

\* SendInput was refused for a session whose child had exited
C6_Witness ==
    /\ resp["h1"].op = "respond"
    /\ resp["h1"].kind = "not_running"
    /\ active_process # 0

\* the bytes of a response text as given
BytesAsGiven(t) ==
    CASE t = TextY -> <<89>> [] t = TextPadded -> <<32, 195, 169, 32, 10>>

\* a SendInput arrives in this step and its write reaches the child
Sent(h) == Received(h, "respond") /\ pc'[h] = "send_sleep"

\* C7 as claimed, for the text "Y", which has no whitespace around it: a
\* SendInput that goes on to answer that the response was sent has written
\* to the input of the child the bytes of the text followed by one line
\* terminator, once; a SendInput whose write did not go through does not go
\* on to that answer.
C7_Original ==
    [][\A h \in Handlers :
        /\ (Sent(h) /\ req'[h].text = TextY)
           => procs'[active_process].stdin =
                procs[active_process].stdin \o BytesAsGiven(TextY) \o <<10>>
        /\ (pc[h] \in {"send_flush", "send_broken"} /\ pc'[h] # pc[h]
            /\ req[h].text = TextY)
           => /\ pc'[h] = "idle"
              /\ resp'[h].kind = "write_error"]_vars

\* a one-shot request answers in this step
GenAnswers(h) ==
    /\ pc[h] \in {"gen_cancel", "gen_join_out", "gen_join_err", "gen_kill_wait"}
    /\ pc'[h] = "idle"

\* C8 as claimed: a run whose deadline passes before the exit of the child
\* is recorded always gives the timeout result, and when it gives its result
\* the child has stopped and its exit is recorded.
C8_Original ==
    [][\A h \in Handlers :
        (pc[h] \in {"gen_cancel", "gen_kill_wait"} /\ req[h].seen = None
         /\ pc'[h] = "idle")
        => /\ resp'[h].kind = "timeout"
           /\ ~procs'[req[h].child].alive
           /\ procs'[req[h].child].returncode # None]_vars

\* the lines of `written` that are not blank
RECURSIVE NonBlank(_)
NonBlank(written) ==
    IF written = <<>> THEN <<>>
    ELSE (IF Head(written) = LineBlank THEN <<>> ELSE <<Head(written)>>)
         \o NonBlank(Tail(written))

\* C9 as claimed: generate_flashcards never discards captured output. After
\* an exit before the deadline both pumps have reached end of data and the
\* result holds every non-empty line the child wrote and its real exit code;
\* after the deadline the result holds every line appended so far and the
\* timeout indicator.
C9_Original ==
    [][\A h \in Handlers :
        GenAnswers(h)
        => LET c == req[h].child
           IN IF pc[h] \in {"gen_cancel", "gen_kill_wait"}
              THEN /\ resp'[h].kind = "timeout"
                   /\ resp'[h].output = Result(appended[c], NoOutputCaptured)
              ELSE /\ resp'[h].kind = "completed"
                   /\ resp'[h].code = procs[c].exitcode
                   /\ resp'[h].output = Result(appended[c], NoOutput)
                   /\ \A s \in Streams :
                        /\ procs[c].pump[s] = "done"
                        /\ Len(NonBlank(procs[c].written[s])) =
                             Cardinality({i \in DOMAIN appended[c] :
                                 \E k \in 1..MaxOutput + 1 :
                                     appended[c][i] = TextOf(s, k)})]_vars

\* the decimal text of the card counts used
DecimalText(n) ==
    CASE n = 0 -> "0" [] n = 3 -> "3" [] n = 12 -> "12" [] n = 0 - 7 -> "-7"

Has(k) == k \in DOMAIN argIn.arguments

EndsWith(v, tail) ==
    /\ Len(v) >= Len(tail)
    /\ SubSeq(v, Len(v) - Len(tail) + 1, Len(v)) = tail

\* the vector the claim names: the fixed leading tokens of the tool, then the
\* contribution of every field present in the request, absent fields
\* contributing nothing
ClaimedVector ==
    LET a == argIn.arguments
        notes == IF Has("notes") THEN a.notes ELSE <<>>
    IN (IF argIn.tool = "generate_flashcards"
        THEN <<"obsidianki", "--mcp">> ELSE <<"obsidianki">>)
       \o (IF Has("cards") THEN <<"--cards", DecimalText(a.cards)>> ELSE <<>>)
       \o (IF Has("query") THEN <<"-q", a.query>> ELSE <<>>)
       \o [i \in 1..(2 * Len(notes)) |->
             IF i % 2 = 1 THEN "--notes" ELSE notes[i \div 2]]
       \o (IF Has("deck") THEN <<"--deck", a.deck>> ELSE <<>>)
       \o (IF Has("use_schema") /\ a.use_schema
           THEN <<"--use-schema">> ELSE <<>>)
       \o (IF Has("additional_args") THEN a.additional_args ELSE <<>>)

\* C10 as claimed: the vector is exactly the concatenation of the
\* contributions of the fields present in the request, so its length is their
\* sum, and Start (run_obsidianki) with cards=3 and deck="Spanish" yields a
\* vector ending with --cards 3 --deck Spanish.
C10_Original ==
    argOut # <<>>
    => /\ argOut = ClaimedVector
       /\ Len(argOut) = Len(ClaimedVector)
       /\ (/\ argIn.tool = "run_obsidianki"
           /\ argIn.arguments = [cards |-> 3, deck |-> "Spanish"])
          => EndsWith(argOut, <<"--cards", "3", "--deck", "Spanish">>)

\* C11: when Stop on a Running session returns, the child has exited and its
\* exit is recorded, the input of the session is closed and both pump tasks
\* of the session have ended; a pump task that has ended never runs again,
\* so no pump runs for a session whose Stop has returned.
C11_StopTeardown ==
    [][/\ \A h \in Handlers :
            (pc[h] = "stop_wait" /\ pc'[h] # "stop_wait")
            => LET c == req[h].child
               IN /\ resp'[h].kind = "stopped"
                  /\ ~procs'[c].alive
                  /\ procs'[c].returncode # None
                  /\ procs'[c].stdin_closed
                  /\ \A s \in Streams : procs'[c].pump[s] \in {"done", "failed"}
       /\ \A p \in Pids, s \in Streams :
            procs[p].pump[s] \in {"done", "failed"}
            => procs'[p].pump[s] = procs[p].pump[s]]_vars

\* Stop returned for a child that was sent the termination request and had
\* written output that a pump appended
C11_Witness ==
    /\ resp["h1"].kind = "stopped"
    /\ active_process # 0
    /\ SIGTERM \in procs[active_process].signals
    /\ appended[active_process] # <<>>
    /\ \A s \in Streams : procs[active_process].pump[s] = "done"

\* C12 as claimed: every invocation of generate_flashcards eventually returns
\* its result; it does not stay suspended once the child has exited or the
\* deadline has passed.
C12_Original ==
    \A h \in Handlers : (pc[h] = "gen_wait_call") ~> (pc[h] = "idle")

\* task h answers in this step that the session is running: the conflict
\* message of Start, status "running", or "Response sent." without
\* "Process completed."
ObservesRunning(h) ==
    /\ pc'[h] = "idle"
    /\ resp'[h].n # resp[h].n
    /\ \/ resp'[h].kind \in {"already_running", "sent"}
       \/ resp'[h].kind = "status" /\ resp'[h].code = None

\* C13: the recorded exit of a child never changes and a stopped child never
\* runs again; a request that reports the session as running does so for a
\* child whose exit is not recorded at that moment, so never for a child
\* reported terminal before; and the slot is only ever rebound to a child
\* spawned after the one it held, once that one is terminal.
C13_StateIsMonotonic ==
    [][/\ \A p \in Pids :
            /\ procs[p].returncode # None
               => procs'[p].returncode = procs[p].returncode
            /\ ~procs[p].alive
               => ~procs'[p].alive /\ procs'[p].exitcode = procs[p].exitcode
       /\ \A h \in Handlers :
            ObservesRunning(h) => procs[active_process].returncode = None
       /\ active_process' # active_process
          => /\ active_process' > active_process
             /\ ~Running(active_process)]_vars

\* the session was reported running for a second child after the first one
\* had terminated
C13_Witness ==
    /\ resp["h1"].kind = "status"
    /\ resp["h1"].code = None
    /\ active_process = 2
    /\ procs[1].returncode # None

\* the lines of stream s that the pump of child p has taken
Taken(p, s) ==
    SubSeq(procs[p].written[s], 1,
           Len(procs[p].written[s]) - Len(procs[p].pipe[s]))

\* the texts of the progress lines among `lines`, in their order: a progress
\* line is a space, the letter of its stream, its number, a space and a
\* line terminator
RECURSIVE ProgressTexts(_)
ProgressTexts(lines) ==
    IF lines = <<>> THEN <<>>
    ELSE (IF Len(Head(lines)) = 5
          THEN <<SubSeq(Head(lines), 2, 3)>> ELSE <<>>)
         \o ProgressTexts(Tail(lines))

\* the texts of list that came from stream s
RECURSIVE OfStream(_, _)
OfStream(list, s) ==
    IF list = <<>> THEN <<>>
    ELSE (IF Head(list)[1] = (IF s = "stdout" THEN 111 ELSE 101)
          THEN <<Head(list)>> ELSE <<>>)
         \o OfStream(Tail(list), s)

\* C14: for each stream taken separately, the lines that the pumps appended
\* to the buffer of a session, and so the lines given to successive drains
\* followed by the lines still buffered, are the non-empty lines the child
\* wrote to that stream and the pump has taken, in the order it wrote them.
C14_PerStreamOrder ==
    \A p \in Pids : \A s \in Streams :
        p \in DOMAIN lists
        => /\ OfStream(appended[p], s) = ProgressTexts(Taken(p, s))
           /\ OfStream(returned[p] \o lists[p], s) = ProgressTexts(Taken(p, s))

\* two lines of one stream were returned by two different drains
C14_Witness ==
    /\ 1 \in DOMAIN returned
    /\ \E s \in Streams :
         /\ Len(OfStream(returned[1], s)) = 2
         /\ resp["h1"].output = OfStream(returned[1], s)[2]

\* C15 as claimed: the input of a session, once closed, stays closed; in
\* one-shot mode it is closed in the step that follows the spawn, before any
\* waiting; no request writes to an input that is closed; and the input of a
\* session whose exit is recorded is closed, never left open.
C15_Original ==
    [][/\ \A p \in Pids : procs[p].stdin_closed => procs'[p].stdin_closed
       /\ \A h \in Handlers :
            /\ (pc[h] = "gen_spawn" /\ pc'[h] # "gen_spawn")
               => /\ pc'[h] = "gen_wait_call"
                  /\ procs'[req[h].child].stdin_closed
            /\ ~(pc[h] = "idle" /\ pc'[h] = "send_flush")
       /\ \A p \in DOMAIN procs' :
            procs'[p].returncode # None => procs'[p].stdin_closed]_vars

\* a pump of child p ends in this step because a line did not decode
PumpFails(p, s) ==
    /\ procs[p].pump[s] = "reading"
    /\ procs'[p].pump[s] = "failed"

\* C16 as claimed: a pump that fails ends alone. The other pump is left as
\* it was, no signal is sent to the child because of the failure, the lines
\* already captured stay in the list, and a one-shot request whose pump has
\* failed still answers with its normal result: the exit code or the timeout
\* indicator, with the captured output.
C16_Original ==
    [][/\ \A p \in Pids : \A s \in Streams :
            PumpFails(p, s)
            => /\ \A o \in Streams \ {s} : procs'[p].pump[o] = procs[p].pump[o]
               /\ procs'[p].signals = procs[p].signals
               /\ procs'[p].alive = procs[p].alive
               /\ \A i \in DOMAIN lists[p] : lists'[p][i] = lists[p][i]
       /\ \A h \in Handlers :
            (GenAnswers(h)
             /\ \E s \in Streams : procs[req[h].child].pump[s] = "failed")
            => LET c == req[h].child
               IN \/ /\ resp'[h].kind = "completed"
                     /\ resp'[h].code = procs[c].returncode
                     /\ resp'[h].output = Result(lists[c], NoOutput)
                  \/ /\ resp'[h].kind = "timeout"
                     /\ resp'[h].output = Result(lists[c], NoOutputCaptured)]_vars

\* C17: a Start whose child cannot be launched answers that request with the
\* error and creates no session: no child exists that did not before, the
\* slot holds what it held, the output buffer is the same list with the same
\* lines, and no pump task was started.
C17_SpawnFailureChangesNothing ==
    [][\A h \in Handlers :
        (Received(h, "run") /\ pc'[h] = "idle"
         /\ resp'[h].kind = "spawn_error")
        => /\ resp'[h].n = nreq'
           /\ ~AlreadyRunning
           /\ UNCHANGED Session]_vars

\* the launch failed over a terminated session whose buffer held a line that
\* no request had drained yet
C17_Witness ==
    /\ resp["h1"].kind = "spawn_error"
    /\ active_process # 0
    /\ procs[active_process].returncode # None
    /\ pending_output = active_process
    /\ lists[pending_output] # <<>>
    /\ Len(procs) = 1

\* child p wrote a line whose decoded, stripped text is `text`
FromChild(p, text) ==
    \E s \in Streams : \E k \in DOMAIN procs[p].written[s] :
        /\ Decode(procs[p].written[s][k]).ok
        /\ Strip(Decode(procs[p].written[s][k]).text) = text

\* C18: the output of sessions is kept apart. Every line a pump appends goes
\* to the list of the session of the child that wrote it, whichever list the
\* buffer names by then, and every snapshot is taken from the list of the
\* child in the slot: no line of an earlier child is returned in a snapshot
\* of a later session.
C18_SessionOutputIsolated ==
    /\ [](/\ appended[0] = <<>>
          /\ \A p \in Pids :
                p \in DOMAIN appended
                => \A i \in DOMAIN appended[p] : FromChild(p, appended[p][i]))
    /\ [][\A h \in Handlers :
            DrainStep(h)
            => /\ pending_output = active_process
               /\ resp'[h].output =
                    Shown(req[h].op, Join(lists[active_process]))
               /\ \A i \in DOMAIN lists[active_process] :
                    FromChild(active_process, lists[active_process][i])]_vars

\* a second session was started over a terminated one and its snapshots were
\* returned without the line of the first child, which a pump of the first
\* session appended to the first list where no request had drained it, while
\* the other pump of the first session is still reading
C18_Witness ==
    /\ Len(procs) = 2
    /\ active_process = 2
    /\ resp["h1"].op = "get" /\ resp["h1"].output = NoNewOutput
    /\ returned[1] = <<>> /\ lists[1] # <<>>
    /\ returned[2] = <<>>
    /\ \E s \in Streams : procs[1].pump[s] = "reading"

\* another task is suspended inside a Start whose child still runs: at the
\* await of create_subprocess_exec or in the grace wait
StartInProgress(h) ==
    \E g \in Handlers \ {h} :
        /\ pc[g] \in {"run_spawn", "run_sleep"}
        /\ procs[req[g].child].returncode = None

\* C19 as claimed: the test of the slot and the store into it act as one
\* acquire. At most one child is spawned and Running whatever the
\* interleaving of the request tasks, and a Start that arrives while another
\* Start is suspended spawning its child or in its grace wait, with that
\* child Running, answers AlreadyRunning and spawns nothing.
C19_Original ==
    /\ [](Cardinality(RunningPids) <= 1)
    /\ [][\A h \in Handlers :
            (Received(h, "run") /\ StartInProgress(h))
            => /\ pc'[h] = "idle"
               /\ resp'[h].kind = "already_running"
               /\ UNCHANGED procs]_vars

====
